---------------------------- MODULE Spec2Model ----------------------------
(***************************************************************************)
(* Calendar-task backend: the recurrence-date generator, the task handlers *)
(* (createTask, updateTask, generateRecurringInstances) and the analytics  *)
(* aggregation (getAnalytics).                                             *)
(*                                                                         *)
(* A Date is a record [day, ms]: the local calendar day counted from       *)
(* 1970-01-01 (day 0, a Thursday) and the time of day in milliseconds.     *)
(* The server's time zone is taken to have no daylight-saving shift, so    *)
(* setDate/setMonth/setFullYear keep the time of day.                      *)
(***************************************************************************)
EXTENDS Integers, Sequences, FiniteSets

VARIABLES
    call,         \* generateRecurringDates: its arguments [startDate, recurrence, endDate]
    currentDate,  \* generateRecurringDates: let currentDate
    count,        \* generateRecurringDates: let count
    dates,        \* generateRecurringDates: const dates (the array returned)
    pc,           \* generateRecurringDates: "loop" in the while loop, "done" once returned
    tasks,        \* the Task collection: tasks[i] is the document with _id i
    request,      \* the request handled last
    response,     \* the response sent for it
    generatedIds, \* history: the _ids of the documents saved by generateRecurringInstances
    now,          \* the server clock: new Date()
    analyticsData,\* getAnalytics: the analyticsData object sent last
    inflight      \* the handlers that are between their awaits, one per connection

vars == <<call, currentDate, count, dates, pc, tasks, request, response, generatedIds,
          now, analyticsData, inflight>>

expandVars    == <<call, currentDate, count, dates, pc>>
storeVars     == <<tasks, request, response, generatedIds>>
analyticsVars == <<now, analyticsData>>
raceVars      == <<inflight>>

---------------------------------------------------------------------------
(* Dates *)

\* getTime() order of two Dates: a <= b
Le(a, b) == a.day < b.day \/ (a.day = b.day /\ a.ms <= b.ms)

\* a < b
Lt(a, b) == a.day < b.day \/ (a.day = b.day /\ a.ms < b.ms)

\* Date.prototype.getDay(): 0 = Sunday .. 6 = Saturday
getDay(d) == (d.day + 4) % 7

\* Days since 1970-01-01 of the civil date y-m-d (m in 1..12), proleptic Gregorian
DaysFromCivil(y, m, d) ==
    LET yy  == IF m <= 2 THEN y - 1 ELSE y
        era == yy \div 400
        yoe == yy - era * 400
        mp  == IF m > 2 THEN m - 3 ELSE m + 9
        doy == (153 * mp + 2) \div 5 + d - 1
        doe == yoe * 365 + yoe \div 4 - yoe \div 100 + doy
    IN  era * 146097 + doe - 719468

\* The civil date [y, m, d] (m in 1..12) of a day number
CivilFromDays(z) ==
    LET zz  == z + 719468
        era == zz \div 146097
        doe == zz - era * 146097
        yoe == (doe - doe \div 1460 + doe \div 36524 - doe \div 146096) \div 365
        doy == doe - (365 * yoe + yoe \div 4 - yoe \div 100)
        mp  == (5 * doy + 2) \div 153
        d   == doy - (153 * mp + 2) \div 5 + 1
        m   == IF mp < 10 THEN mp + 3 ELSE mp - 9
    IN  [y |-> yoe + era * 400 + (IF m <= 2 THEN 1 ELSE 0), m |-> m, d |-> d]

\* date.setDate(date.getDate() + n)
AddDays(date, n) == [date EXCEPT !.day = @ + n]

\* date.setMonth(date.getMonth() + n): the day of month carries over into the
\* following month when the target month is shorter
AddMonths(date, n) ==
    LET c     == CivilFromDays(date.day)
        total == (c.m - 1) + n
    IN  [date EXCEPT !.day =
            DaysFromCivil(c.y + total \div 12, (total % 12) + 1, 1) + c.d - 1]

\* date.setFullYear(date.getFullYear() + n)
AddYears(date, n) ==
    LET c == CivilFromDays(date.day)
    IN  [date EXCEPT !.day = DaysFromCivil(c.y + n, c.m, 1) + c.d - 1]

\* Times of day, in milliseconds
NineAM  == 9 * 60 * 60 * 1000
Noon    == 12 * 60 * 60 * 1000
SixPM   == 18 * 60 * 60 * 1000

\* Monday 2024-01-01 and the days after it
Day(k) == DaysFromCivil(2024, 1, 1) + k

\* The clock when the server starts. The handlers below stamp createdAt with the
\* clock and read it nowhere else; it advances only between the runs of getAnalytics.
ServerStart == [day |-> Day(0), ms |-> 0]

---------------------------------------------------------------------------
(* RecurrenceRule and generateRecurringDates *)

RecurrenceTypes == {"none", "daily", "weekly", "monthly", "yearly"}

\* recurrence.count unset: `!recurrence.count` holds for undefined and for 0
NoCount == 0

\* An optional Date that is not set (recurrence.endDate, parentTaskId and alike)
Unset == [unset |-> TRUE]

\* The safety check's limit
SafetyLimit == 1000

\* The while condition
LoopCondStrict(cur, cnt, rec, endDate) ==
    Lt(cur, endDate) /\ (rec.count = NoCount \/ cnt < rec.count)

LoopCond(cur, cnt, rec, endDate) ==
    Le(cur, endDate) /\ (rec.count = NoCount \/ cnt < rec.count)

\* The offsets i in 1..7 at which the weekly scan's test succeeds
WeekdayOffsetsFromZero(cur, weekdays) ==
    {i \in 0 .. 6 : getDay(AddDays(cur, i)) \in weekdays}

WeekdayOffsets(cur, weekdays) ==
    {i \in 1 .. 7 : getDay(AddDays(cur, i)) \in weekdays}

\* case 'weekly'
AdvanceWeekly(cur, rec) ==
    IF rec.weekdays # {}
    THEN LET found == WeekdayOffsets(cur, rec.weekdays)
         IN  IF found # {}
             THEN AddDays(cur, CHOOSE i \in found : \A j \in found : i <= j)
             ELSE AddDays(cur, 7 * rec.interval)
    ELSE AddDays(cur, 7 * rec.interval)

\* The switch on recurrence.type, for the four types that advance
Advance(cur, rec) ==
    CASE rec.type = "daily"   -> AddDays(cur, rec.interval)
      [] rec.type = "weekly"  -> AdvanceWeekly(cur, rec)
      [] rec.type = "monthly" -> AddMonths(cur, rec.interval)
      [] rec.type = "yearly"  -> AddYears(cur, rec.interval)

\* The safety check after count++
SafetyStop(cnt) == cnt > SafetyLimit

\* One evaluation of the while condition and, when it holds, one pass of the
\* loop body. s = [currentDate, count, dates, pc].
LoopIter(s, rec, endDate) ==
    IF ~LoopCond(s.currentDate, s.count, rec, endDate)
    THEN [s EXCEPT !.pc = "done"]
    ELSE LET pushed == Append(s.dates, s.currentDate)
         IN  IF rec.type \notin {"daily", "weekly", "monthly", "yearly"}
             THEN [s EXCEPT !.dates = pushed, !.pc = "done"]      \* default: return dates
             ELSE [currentDate |-> Advance(s.currentDate, rec),
                   count       |-> s.count + 1,
                   dates       |-> pushed,
                   pc          |-> IF SafetyStop(s.count + 1) THEN "done" ELSE "loop"]

\* The state on entry to the while loop
LoopEntry(startDate) ==
    [currentDate |-> startDate, count |-> 0, dates |-> <<>>, pc |-> "loop"]

RECURSIVE RunLoop(_, _, _)
RunLoop(s, rec, endDate) ==
    IF s.pc = "done" THEN s.dates ELSE RunLoop(LoopIter(s, rec, endDate), rec, endDate)

\* generateRecurringDates as one call (used by generateRecurringInstances)
generateRecurringDates(startDate, rec, endDate) ==
    RunLoop(LoopEntry(startDate), rec, endDate)

---------------------------------------------------------------------------
(* Bounds of the model *)

\* The collection holds at most MaxTasks documents
MaxTasks == 2

\* The widest requested window ends on the day this many days after the first day
MaxRangeDay == 2

\* getAnalytics is asked for 1 .. MaxDays days
MaxDays == 3

\* At most MaxPerDay completed tasks are created on one day
MaxPerDay == 3

\* Intervals 1 .. MaxInterval are tried with every near horizon
MaxInterval == 3

\* The near horizons end this many days after the start date
NearHorizon == 16

\* The far horizon ends this many days after the start date
FarHorizon == 1100

\* A recurrence.count larger than the safety limit
BigCount == 2000

\* The score is computed on the day this many days after Day(0)
ScoreDays == 7

\* The creating requests the server receives, each on its own connection
MaxInflight == 3

---------------------------------------------------------------------------
(* The Task collection and its handlers *)

\* parentTaskId of a document that has none
NoParent == 0

\* date.setHours(0, 0, 0, 0)
StartOfDay(date) == [date EXCEPT !.ms = 0]

\* date.setHours(23, 59, 59, 999)
EndOfDayMs == ((23 * 60 + 59) * 60 + 59) * 1000 + 999
EndOfDay(date) == [date EXCEPT !.ms = EndOfDayMs]

\* Task.find({date: {$gte: start of the day, $lt: 23:59:59.999 of the day}})
TasksOnDate(ts, date) ==
    {i \in DOMAIN ts : Le(StartOfDay(date), ts[i].date) /\ Lt(ts[i].date, EndOfDay(date))}

\* .sort({order: -1}).limit(1), and -1 when no document matches
HighestOrder(ts, date) ==
    LET found == TasksOnDate(ts, date)
    IN  IF found = {} THEN -1
        ELSE LET top == CHOOSE i \in found : \A j \in found : ts[j].order <= ts[i].order
             IN  ts[top].order

\* recurrence && recurrence.type !== 'none'
IsRecurringRule(rec) == rec # Unset /\ rec.type # "none"

\* The default the handler stores when the request carries no recurrence
DefaultRule ==
    [type |-> "none", interval |-> 1, count |-> NoCount, weekdays |-> {}, endDate |-> Unset]

NoRequest ==
    [op |-> "none", id |-> 0, date |-> Unset, order |-> {}, recurrence |-> Unset,
     startDate |-> Unset, endDate |-> Unset, days |-> 0]

NoResponse == [status |-> 0, error |-> "", ids |-> <<>>]

Ok(status, ids) == [status |-> status, error |-> "", ids |-> ids]
Fail(status, error) == [status |-> status, error |-> error, ids |-> <<>>]

\* createTask: the document built by new Task({...}) for a request with a date
CreatedTask(ts, date, rec) ==
    [date         |-> date,
     order        |-> HighestOrder(ts, date) + 1,
     completed    |-> FALSE,
     recurrence   |-> IF rec # Unset THEN rec ELSE DefaultRule,
     isRecurring  |-> IsRecurringRule(rec),
     parentTaskId |-> NoParent,
     priority     |-> "medium",
     createdAt    |-> now]

createTask(date, rec) ==
    /\ request' = [NoRequest EXCEPT !.op = "createTask", !.date = date, !.recurrence = rec]
    /\ IF date = Unset
       THEN /\ response' = Fail(400, "Title and date are required")
            /\ UNCHANGED <<tasks, generatedIds>>
       ELSE /\ tasks' = Append(tasks, CreatedTask(tasks, date, rec))
            /\ response' = Ok(201, <<Len(tasks) + 1>>)
            /\ UNCHANGED generatedIds
    /\ UNCHANGED <<expandVars, analyticsVars, raceVars>>

\* updateTask: the document after findByIdAndUpdate(id, updateData); a field the
\* request does not carry stays as stored
UpdatedTask(t, date, order, rec) ==
    [t EXCEPT !.date        = IF date = Unset THEN @ ELSE date,
              !.order       = IF order = {} THEN @ ELSE CHOOSE o \in order : TRUE,
              !.recurrence  = IF rec = Unset THEN @ ELSE rec,
              !.isRecurring = IF rec = Unset THEN @ ELSE IsRecurringRule(rec)]

updateTask(id, date, order, rec) ==
    /\ request' = [NoRequest EXCEPT !.op = "updateTask", !.id = id, !.date = date,
                                    !.order = order, !.recurrence = rec]
    /\ IF id \notin DOMAIN tasks
       THEN /\ response' = Fail(404, "Task not found")
            /\ UNCHANGED tasks
       ELSE /\ tasks' = [tasks EXCEPT ![id] = UpdatedTask(@, date, order, rec)]
            /\ response' = Ok(200, <<id>>)
    /\ UNCHANGED <<generatedIds, expandVars, analyticsVars, raceVars>>

\* if (!parentTask.recurrence || parentTask.recurrence.type === 'none')
NotRecurringMissingOnly(parentTask) == parentTask.recurrence = Unset

NotRecurring(parentTask) ==
    parentTask.recurrence = Unset \/ parentTask.recurrence.type = "none"

\* recurringDates.filter(date => date >= new Date(startDate) && date <= new Date(endDate))
\*               .filter(date => date.toDateString() !== parentTask.date.toDateString())
InstanceDates(parentTask, startDate, endDate) ==
    LET InRange(d)   == Le(startDate, d) /\ Le(d, endDate)
        NotParent(d) == d.day # parentTask.date.day
    IN  SelectSeq(SelectSeq(generateRecurringDates(parentTask.date, parentTask.recurrence,
                                                   endDate),
                            InRange),
                  NotParent)

\* The value of `date` when new Task({... date: date ...}) reads it: the two
\* setHours calls of the query above it have moved it to 23:59:59.999
InstanceDate(date) == EndOfDay(StartOfDay(date))

\* The document built for one instance date. Every callback of the map issues its
\* find before any instance is saved, and the instance dates of one call fall on
\* different days, so each order is read from the collection as it was when the
\* handler started.
InstanceTask(ts, id, parentTask, date) ==
    [date         |-> InstanceDate(date),
     order        |-> HighestOrder(ts, date) + 1,
     completed    |-> FALSE,
     recurrence   |-> Unset,
     isRecurring  |-> FALSE,
     parentTaskId |-> id,
     priority     |-> parentTask.priority,
     createdAt    |-> now]

generateRecurringInstances(id, startDate, endDate) ==
    /\ request' = [NoRequest EXCEPT !.op = "generateRecurringInstances", !.id = id,
                                    !.startDate = startDate, !.endDate = endDate]
    /\ IF id \notin DOMAIN tasks
       THEN /\ response' = Fail(404, "Task not found")
            /\ UNCHANGED <<tasks, generatedIds>>
       ELSE IF NotRecurring(tasks[id])
       THEN /\ response' = Fail(400, "Task is not recurring")
            /\ UNCHANGED <<tasks, generatedIds>>
       ELSE LET instanceDates == InstanceDates(tasks[id], startDate, endDate)
                n   == Len(instanceDates)
                ids == [k \in 1 .. n |-> Len(tasks) + k]
            IN  /\ Len(tasks) + n <= MaxTasks
                /\ tasks' = tasks \o [k \in 1 .. n |->
                                        InstanceTask(tasks, id, tasks[id], instanceDates[k])]
                /\ response' = Ok(200, ids)
                /\ generatedIds' = generatedIds \cup {ids[k] : k \in 1 .. n}
    /\ UNCHANGED <<expandVars, analyticsVars, raceVars>>

---------------------------------------------------------------------------
(* getAnalytics *)

\* subDays(date, n)
subDays(date, n) == AddDays(date, -n)

\* format(date, 'yyyy-MM-dd'): the local calendar date
format(date) == CivilFromDays(date.day)

\* eachDayOfInterval({start, end}): the start of every day from start's to end's
eachDayOfIntervalAfterStart(start, end) ==
    [i \in 1 .. (end.day - start.day) |-> [day |-> start.day + i, ms |-> 0]]

eachDayOfInterval(start, end) ==
    [i \in 1 .. (end.day - start.day + 1) |-> [day |-> start.day + i - 1, ms |-> 0]]

\* Task.find({createdAt: {$gte: startDate, $lte: endDate}}).sort({createdAt: 1});
\* documents are stored in the order of their createdAt
FindCreatedBetween(ts, startDate, endDate) ==
    LET InWindow(t) == Le(startDate, t.createdAt) /\ Le(t.createdAt, endDate)
    IN  SelectSeq(ts, InWindow)

\* tasks.filter(task => task.completed).length
CountCompleted(found) == Cardinality({i \in DOMAIN found : found[i].completed})

\* dailyStatsMap after "Initialize all dates with 0"
EmptyDailyStats(dateRange) ==
    [k \in {format(dateRange[i]) : i \in DOMAIN dateRange} |->
        [date |-> k, tasksCreated |-> 0, tasksCompleted |-> 0]]

\* dailyStatsMap after "Fill with actual data" has run over found[i .. ]
RECURSIVE FillDailyStats(_, _, _)
FillDailyStats(map, found, i) ==
    IF i > Len(found) THEN map
    ELSE LET createdDate == format(found[i].createdAt)
         IN  IF createdDate \in DOMAIN map
             THEN FillDailyStats(
                     [map EXCEPT ![createdDate] =
                         [@ EXCEPT !.tasksCreated = @ + 1,
                                   !.tasksCompleted =
                                       IF found[i].completed THEN @ + 1 ELSE @]],
                     found, i + 1)
             ELSE FillDailyStats(map, found, i + 1)

\* Array.from(dailyStatsMap.values()): in the order the days were inserted
DailyStats(found, dateRange) ==
    LET map == FillDailyStats(EmptyDailyStats(dateRange), found, 1)
    IN  [i \in DOMAIN dateRange |-> map[format(dateRange[i])]]

\* The streak variables before the loop
StreakEntry ==
    [currentStreak |-> 0, longestStreak |-> 0, tempStreak |-> 0,
     lastCompletionDate |-> Unset, stopped |-> FALSE]

Max(a, b) == IF a >= b THEN a ELSE b

\* The branch of the streak loop for a day with completions
StreakCountDay(st, dayStats) ==
    [currentStreak      |-> st.currentStreak + 1,
     longestStreak      |-> Max(st.longestStreak, st.tempStreak + 1),
     tempStreak         |-> st.tempStreak + 1,
     lastCompletionDate |-> IF st.currentStreak = 0 THEN dayStats.date
                            ELSE st.lastCompletionDate,
     stopped            |-> FALSE]

\* if (currentStreak > 0) break;
StreakBreakNever(st) == FALSE

StreakBreak(st) == st.currentStreak > 0

\* One iteration of the streak loop; `stopped` records that the break was taken,
\* after which no iteration runs
StreakIter(st, dayStats) ==
    IF st.stopped THEN st
    ELSE IF dayStats.tasksCompleted > 0 THEN StreakCountDay(st, dayStats)
    ELSE IF StreakBreak(st) THEN [st EXCEPT !.stopped = TRUE]
    ELSE [st EXCEPT !.tempStreak = 0]

\* The iterations lo .. hi of the streak loop over sortedDailyStats, in order; they
\* are evaluated as two halves so that a window of a year nests no deeper than a
\* window of a week
RECURSIVE StreakLoop(_, _, _, _)
StreakLoop(st, sortedDailyStats, lo, hi) ==
    IF lo > hi THEN st
    ELSE IF lo = hi THEN StreakIter(st, sortedDailyStats[lo])
    ELSE LET mid  == (lo + hi) \div 2
             left == StreakLoop(st, sortedDailyStats, lo, mid)
         IN  IF left.stopped THEN left
             ELSE StreakLoop(left, sortedDailyStats, mid + 1, hi)

\* [...dailyStats].reverse()
Reverse(seq) == [i \in 1 .. Len(seq) |-> seq[Len(seq) + 1 - i]]

StreakData(dailyStats) ==
    LET st == StreakLoop(StreakEntry, Reverse(dailyStats), 1, Len(dailyStats))
    IN  [currentStreak |-> st.currentStreak, longestStreak |-> st.longestStreak,
         lastCompletionDate |-> st.lastCompletionDate]

\* Math.min(Number(days), 365)
DaysCount(days) == IF days < 365 THEN days ELSE 365

\* Math.round(n / d) for n >= 0 and d > 0
Round(n, d) == (2 * n + d) \div (2 * d)

Min(a, b) == IF a <= b THEN a ELSE b

Priorities == <<"low", "medium", "high", "urgent">>

\* One entry of priorityStats; completionRate is kept in hundredths, the unit
\* Math.round(rate * 100) / 100 rounds to
PriorityStat(found, priority) ==
    LET priorityTasks == {i \in DOMAIN found : found[i].priority = priority}
        completedPriorityTasks == {i \in priorityTasks : found[i].completed}
        total == Cardinality(priorityTasks)
        completed == Cardinality(completedPriorityTasks)
    IN  [priority       |-> priority,
         total          |-> total,
         completed      |-> completed,
         completionRate |-> IF total > 0 THEN Round(completed * 100 * 100, total) ELSE 0]

PriorityStats(found) == [k \in DOMAIN Priorities |-> PriorityStat(found, Priorities[k])]

\* priorityStats.find(p => p.priority === 'high')?.completionRate || 0, in hundredths
HighCompletionRate(priorityStats) ==
    LET high == {k \in DOMAIN priorityStats : priorityStats[k].priority = "high"}
    IN  IF high = {} THEN 0 ELSE priorityStats[CHOOSE k \in high : TRUE].completionRate

\* averageTasksPerDay, in hundredths
AverageTasksPerDay(totalTasks, daysCount) ==
    IF totalTasks > 0 THEN Round(totalTasks * 100, daysCount) ELSE 0

\* The four terms of productivityScore are fractions; each is kept as its numerator
\* over the common denominator 7 * 1000 * totalTasks (7 * 1000 for no tasks)
ScoreScale(totalTasks) == 7 * 1000 * Max(totalTasks, 1)

\* completionRate * 0.4, completionRate being completedTasks / totalTasks * 100
CompletionTerm(completedTasks, totalTasks) ==
    IF totalTasks > 0 THEN completedTasks * 40 * 7 * 1000 ELSE 0

\* Math.min(averageTasksPerDay / 3, 1) * 30
VolumeTermUncapped(averageTasksPerDay, totalTasks) ==
    averageTasksPerDay * 7 * 100 * Max(totalTasks, 1)

VolumeTerm(averageTasksPerDay, totalTasks) ==
    Min(averageTasksPerDay, 3 * 100) * 7 * 100 * Max(totalTasks, 1)

\* Math.min(currentStreak / 7, 1) * 20
StreakTerm(currentStreak, totalTasks) ==
    Min(currentStreak, 7) * 20 * 1000 * Max(totalTasks, 1)

\* (the completionRate of priority high, or 0) * 0.1
HighPriorityTerm(highCompletionRate, totalTasks) ==
    highCompletionRate * 7 * Max(totalTasks, 1)

\* Math.round(the sum of the four terms); the Math.round(score * 100) / 100 of the
\* response leaves this integer as it is
ProductivityScore(completedTasks, totalTasks, averageTasksPerDay, currentStreak, priorityStats) ==
    Round(CompletionTerm(completedTasks, totalTasks)
            + VolumeTerm(averageTasksPerDay, totalTasks)
            + StreakTerm(currentStreak, totalTasks)
            + HighPriorityTerm(HighCompletionRate(priorityStats), totalTasks),
          ScoreScale(totalTasks))

NoAnalytics ==
    [completionStats    |-> [totalTasks |-> 0, completedTasks |-> 0],
     priorityStats      |-> <<>>,
     dailyStats         |-> <<>>,
     streakData         |-> [currentStreak |-> 0, longestStreak |-> 0,
                             lastCompletionDate |-> Unset],
     averageTasksPerDay |-> 0,
     productivityScore  |-> 0]

\* The analyticsData object built for the documents ts at time endDate
AnalyticsData(ts, endDate, days) ==
    LET startDate  == subDays(endDate, DaysCount(days))
        found      == FindCreatedBetween(ts, startDate, endDate)
        dailyStats == DailyStats(found, eachDayOfInterval(startDate, endDate))
        totalTasks == Len(found)
        completedTasks == CountCompleted(found)
        priorityStats == PriorityStats(found)
        streakData == StreakData(dailyStats)
        averageTasksPerDay == AverageTasksPerDay(totalTasks, DaysCount(days))
    IN  [completionStats    |-> [totalTasks |-> totalTasks,
                                 completedTasks |-> completedTasks],
         priorityStats      |-> priorityStats,
         dailyStats         |-> dailyStats,
         streakData         |-> streakData,
         averageTasksPerDay |-> averageTasksPerDay,
         productivityScore  |-> ProductivityScore(completedTasks, totalTasks,
                                                  averageTasksPerDay,
                                                  streakData.currentStreak,
                                                  priorityStats)]

getAnalytics(days) ==
    /\ request' = [NoRequest EXCEPT !.op = "getAnalytics", !.days = days]
    /\ analyticsData' = AnalyticsData(tasks, now, days)
    /\ response' = Ok(200, <<>>)
    /\ UNCHANGED <<tasks, generatedIds, now, expandVars, raceVars>>

---------------------------------------------------------------------------
(* generateRecurringDates, one loop iteration per step *)

\* 2024-01-01 is a Monday, 2024-01-31 a Wednesday, 2024-02-29 a leap day
StartDates ==
    {[day |-> d, ms |-> m] :
        d \in {DaysFromCivil(2024, 1, 1), DaysFromCivil(2024, 1, 31),
               DaysFromCivil(2024, 2, 29)},
        m \in {0, NineAM}}

Rule(t, i, c, w) ==
    [type |-> t, interval |-> i, count |-> c, weekdays |-> w, endDate |-> Unset]

\* A rule whose optional endDate is set
RuleUntil(t, i, c, w, e) == [Rule(t, i, c, w) EXCEPT !.endDate = e]

WeekdaySets == {{1, 3, 5}, {0}, {2, 6}}

\* Rules a stored task can hold (interval >= 1, count unset or >= 1)
NearRules ==
    {Rule(t, i, c, {}) : t \in RecurrenceTypes, i \in 1 .. MaxInterval, c \in {NoCount, 1, 3}}
    \cup {Rule("weekly", i, c, w) : i \in 1 .. MaxInterval, c \in {NoCount, 1, 3, 6},
                                    w \in WeekdaySets}

\* Rules that run into the safety check, misconfigured intervals included
FarRules ==
    {Rule(t, i, c, {}) : t \in RecurrenceTypes \ {"none"}, i \in {-1, 0, 1},
                         c \in {NoCount, BigCount}}
    \cup {Rule("daily", 2, NoCount, {}), Rule("weekly", 2, BigCount, {1, 3, 5})}

ExpandInputs ==
    {[startDate |-> s, recurrence |-> r, endDate |-> [day |-> s.day + o, ms |-> m]] :
        s \in StartDates, r \in NearRules, o \in {-1, 0, NearHorizon}, m \in {0, Noon}}
    \cup
    {[startDate |-> s, recurrence |-> r, endDate |-> AddDays(s, FarHorizon)] :
        s \in {[day |-> DaysFromCivil(2024, 1, 1), ms |-> NineAM]}, r \in FarRules}

InitExpand ==
    /\ call \in ExpandInputs
    /\ currentDate = LoopEntry(call.startDate).currentDate
    /\ count = LoopEntry(call.startDate).count
    /\ dates = LoopEntry(call.startDate).dates
    /\ pc = LoopEntry(call.startDate).pc
    /\ tasks = <<>>
    /\ request = NoRequest
    /\ response = NoResponse
    /\ generatedIds = {}
    /\ now = ServerStart
    /\ analyticsData = NoAnalytics
    /\ inflight = <<>>

ExpandStep ==
    /\ pc = "loop"
    /\ LET s == LoopIter([currentDate |-> currentDate, count |-> count,
                          dates |-> dates, pc |-> pc],
                         call.recurrence, call.endDate)
       IN  /\ currentDate' = s.currentDate
           /\ count' = s.count
           /\ dates' = s.dates
           /\ pc' = s.pc
    /\ UNCHANGED <<call, storeVars, analyticsVars, raceVars>>

NextExpand == ExpandStep

SpecExpand == InitExpand /\ [][NextExpand]_vars

---------------------------------------------------------------------------
(* The handlers, one request at a time *)

\* The dates createTask requests carry: the first day in the morning and at
\* 23:59:59.999, and the morning of the next day
TaskDates ==
    {[day |-> Day(0), ms |-> NineAM], [day |-> Day(0), ms |-> EndOfDayMs],
     [day |-> Day(1), ms |-> NineAM]}

\* The rules createTask and updateTask requests carry; one ends at noon of the
\* second day
CreateRules ==
    {Rule("daily", 1, NoCount, {}), Rule("weekly", 1, 2, {1, 3, 5}),
     RuleUntil("daily", 1, NoCount, {}, [day |-> Day(1), ms |-> Noon])}
UpdateRules == {Rule("none", 1, NoCount, {}), Rule("daily", 1, NoCount, {})}

\* The bodies updateTask requests carry: a new date, a new order or a new rule
UpdateBodies ==
    {[date |-> [day |-> Day(1), ms |-> NineAM], order |-> {}, recurrence |-> Unset],
     [date |-> Unset, order |-> {0}, recurrence |-> Unset]}
    \cup {[date |-> Unset, order |-> {}, recurrence |-> r] : r \in UpdateRules}

\* The windows generate-recurring requests carry
RangeStarts == {[day |-> Day(0), ms |-> 0], [day |-> Day(1), ms |-> Noon]}
RangeEnds   == {[day |-> Day(1), ms |-> Noon], [day |-> Day(MaxRangeDay), ms |-> EndOfDayMs]}

Init ==
    /\ tasks = <<>>
    /\ request = NoRequest
    /\ response = NoResponse
    /\ generatedIds = {}
    /\ call = Unset
    /\ currentDate = Unset
    /\ count = 0
    /\ dates = <<>>
    /\ pc = "idle"
    /\ now = ServerStart
    /\ analyticsData = NoAnalytics
    /\ inflight = <<>>

CreateTask ==
    /\ Len(tasks) < MaxTasks
    /\ \E date \in TaskDates \cup {Unset}, rec \in CreateRules \cup {Unset} :
          createTask(date, rec)

UpdateTask ==
    \E id \in 1 .. MaxTasks, body \in UpdateBodies :
          updateTask(id, body.date, body.order, body.recurrence)

GenerateRecurringInstances ==
    \E id \in 1 .. MaxTasks, startDate \in RangeStarts, endDate \in RangeEnds :
          generateRecurringInstances(id, startDate, endDate)

Next == CreateTask \/ UpdateTask \/ GenerateRecurringInstances

Spec == Init /\ [][Next]_vars

\* The creating handlers alone: no request changes a stored order or date
NextSequential == CreateTask \/ GenerateRecurringInstances

SpecSequential == Init /\ [][NextSequential]_vars

---------------------------------------------------------------------------
(* The creating handlers, interleaved at their awaits *)

\* A handler suspends at `await Task.find(...)` and at `await task.save()`. Each
\* document it is about to store is a write: `date` as the handler holds it,
\* `highestOrder` the answer of its order query ({} until the query is answered),
\* `pc` the await it is at, `stored` the _id once saved.
PendingWrite(date) == [date |-> date, highestOrder |-> {}, pc |-> "find", stored |-> 0]

NoHandler == [op |-> "none", id |-> NoParent, recurrence |-> Unset, writes |-> <<>>]

\* The writes in flight that are not saved yet
Unsaved ==
    {w \in UNION {{<<p, k>> : k \in DOMAIN inflight[p].writes} : p \in DOMAIN inflight} :
        inflight[w[1]].writes[w[2]].pc # "done"}

\* The collection is modelled up to this many documents
RaceCapacity == MaxTasks + 2

\* order: highestOrder + 1, highestOrder being what the query answered
SavedOrderAtomic(ts, write) == HighestOrder(ts, write.date) + 1

SavedOrder(ts, write) == (CHOOSE o \in write.highestOrder : TRUE) + 1

\* createTask up to its `await Task.find(...)`
raceCreateTask(p, date, rec) ==
    /\ inflight[p] = NoHandler
    /\ Len(tasks) + Cardinality(Unsaved) + 1 <= RaceCapacity
    /\ inflight' = [inflight EXCEPT ![p] =
                       [op |-> "createTask", id |-> NoParent, recurrence |-> rec,
                        writes |-> <<PendingWrite(date)>>]]
    /\ UNCHANGED <<storeVars, expandVars, analyticsVars>>

\* generateRecurringInstances up to the awaits of its map callbacks: every callback
\* has issued its order query; a missing or non-recurring parent writes nothing
raceGenerateRecurringInstances(p, id, startDate, endDate) ==
    /\ inflight[p] = NoHandler
    /\ LET instanceDates ==
               IF id \notin DOMAIN tasks \/ NotRecurring(tasks[id]) THEN <<>>
               ELSE InstanceDates(tasks[id], startDate, endDate)
       IN  /\ Len(tasks) + Cardinality(Unsaved) + Len(instanceDates) <= RaceCapacity
           /\ inflight' = [inflight EXCEPT ![p] =
                              [op |-> "generateRecurringInstances", id |-> id,
                               recurrence |-> Unset,
                               writes |-> [k \in DOMAIN instanceDates |->
                                              PendingWrite(instanceDates[k])]]]
    /\ UNCHANGED <<storeVars, expandVars, analyticsVars>>

\* The database answers the order query of write k of handler p
answerFind(p, k) ==
    /\ inflight[p].writes[k].pc = "find"
    /\ inflight' = [inflight EXCEPT ![p].writes[k] =
                       [@ EXCEPT !.highestOrder =
                                     {HighestOrder(tasks, inflight[p].writes[k].date)},
                                 !.pc = "save"]]
    /\ UNCHANGED <<storeVars, expandVars, analyticsVars>>

\* The document write k of handler p saves: the one the handler builds, with the
\* order computed from the answer of its own query
WrittenTask(ts, handler, write) ==
    [(IF handler.op = "createTask"
      THEN CreatedTask(ts, write.date, handler.recurrence)
      ELSE InstanceTask(ts, handler.id, ts[handler.id], write.date))
     EXCEPT !.order = SavedOrder(ts, write)]

\* Write k of handler p is saved
saveWrite(p, k) ==
    /\ inflight[p].writes[k].pc = "save"
    /\ tasks' = Append(tasks, WrittenTask(tasks, inflight[p], inflight[p].writes[k]))
    /\ generatedIds' = IF inflight[p].op = "createTask" THEN generatedIds
                       ELSE generatedIds \cup {Len(tasks) + 1}
    /\ inflight' = [inflight EXCEPT ![p].writes[k] =
                       [@ EXCEPT !.pc = "done", !.stored = Len(tasks) + 1]]
    /\ UNCHANGED <<request, response, expandVars, analyticsVars>>

\* The dates the interleaved createTask requests carry; they carry no recurrence
RaceDates == {[day |-> Day(0), ms |-> NineAM], [day |-> Day(1), ms |-> NineAM]}

\* The collection holds the task an earlier createTask stored: a daily task on the
\* first morning
InitRace ==
    /\ now = ServerStart
    /\ tasks = <<CreatedTask(<<>>, [day |-> Day(0), ms |-> NineAM],
                             Rule("daily", 1, NoCount, {}))>>
    /\ request = NoRequest
    /\ response = NoResponse
    /\ generatedIds = {}
    /\ call = Unset
    /\ currentDate = Unset
    /\ count = 0
    /\ dates = <<>>
    /\ pc = "idle"
    /\ analyticsData = NoAnalytics
    /\ inflight = [p \in 1 .. MaxInflight |-> NoHandler]

RaceCreateTask ==
    \E p \in DOMAIN inflight, date \in RaceDates : raceCreateTask(p, date, Unset)

\* The windows the interleaved generate-recurring requests carry: from the first
\* midnight to noon of the second or of the third day
RaceRangeEnds == {[day |-> Day(1), ms |-> Noon], [day |-> Day(2), ms |-> Noon]}

\* The requests name the daily task or the document stored after it
RaceGenerateRecurringInstances ==
    \E p \in DOMAIN inflight, id \in 1 .. 2, endDate \in RaceRangeEnds :
          raceGenerateRecurringInstances(p, id, [day |-> Day(0), ms |-> 0], endDate)

AnswerFind == \E p \in DOMAIN inflight : \E k \in DOMAIN inflight[p].writes : answerFind(p, k)

SaveWrite == \E p \in DOMAIN inflight : \E k \in DOMAIN inflight[p].writes : saveWrite(p, k)

NextRace == RaceCreateTask \/ RaceGenerateRecurringInstances \/ AnswerFind \/ SaveWrite

SpecRace == InitRace /\ [][NextRace]_vars

---------------------------------------------------------------------------
(* getAnalytics over a stored collection *)

\* What one day contributed to the collection: `open` tasks not completed, created
\* at 09:00, and `done` completed tasks, created at noon
DayProfiles ==
    {[done |-> c, open |-> 0] : c \in 0 .. MaxPerDay}
    \cup {[done |-> c, open |-> 1] : c \in 0 .. 1}

StoredTask(createdAt, completed, priority) ==
    [date         |-> createdAt,
     order        |-> 0,
     completed    |-> completed,
     recurrence   |-> DefaultRule,
     isRecurring  |-> FALSE,
     parentTaskId |-> NoParent,
     priority     |-> priority,
     createdAt    |-> createdAt]

\* The documents one day contributed, in the order of their createdAt; the open
\* tasks and the first completed task have priority high, the others the default
DayTasks(day, profile) ==
    [i \in 1 .. profile.open |-> StoredTask([day |-> day, ms |-> NineAM], FALSE, "high")]
    \o [i \in 1 .. profile.done |->
            StoredTask([day |-> day, ms |-> Noon], TRUE,
                       IF i = 1 THEN "high" ELSE "medium")]

\* The collection built from the profiles of the days first .. last
RECURSIVE Collection(_, _, _)
Collection(profiles, first, last) ==
    IF first > last THEN <<>>
    ELSE DayTasks(first, profiles[first]) \o Collection(profiles, first + 1, last)

\* The clock is read on the day MaxDays days after Day(0): at noon, the instant the
\* last completed task was created, or at 18:00
InitAnalytics ==
    /\ now \in {[day |-> Day(MaxDays), ms |-> m] : m \in {Noon, SixPM}}
    /\ \E profiles \in [Day(0) .. Day(MaxDays) -> DayProfiles] :
          tasks = Collection(profiles, Day(0), Day(MaxDays))
    /\ request = NoRequest
    /\ response = NoResponse
    /\ generatedIds = {}
    /\ analyticsData = NoAnalytics
    /\ inflight = <<>>
    /\ call = Unset
    /\ currentDate = Unset
    /\ count = 0
    /\ dates = <<>>
    /\ pc = "idle"

GetAnalytics == \E days \in 1 .. MaxDays : getAnalytics(days)

NextAnalytics == GetAnalytics

SpecAnalytics == InitAnalytics /\ [][NextAnalytics]_vars

---------------------------------------------------------------------------
(* getAnalytics over windows long enough for every term of the score to saturate *)

\* The collections the score is computed over: the days before `split` share one
\* profile and the days from `split` on share another
ScoreCollections ==
    {[d \in Day(0) .. Day(ScoreDays) |-> IF d < split THEN older ELSE recent] :
        older \in DayProfiles, recent \in DayProfiles,
        split \in Day(1) .. Day(ScoreDays)}

\* The days query parameter: the shortest window, the window that holds the whole
\* collection, and the longest window
ScoreWindows == {1, ScoreDays, 365}

InitScore ==
    /\ now = [day |-> Day(ScoreDays), ms |-> Noon]
    /\ \E profiles \in ScoreCollections :
          tasks = Collection(profiles, Day(0), Day(ScoreDays))
    /\ request = NoRequest
    /\ response = NoResponse
    /\ generatedIds = {}
    /\ analyticsData = NoAnalytics
    /\ inflight = <<>>
    /\ call = Unset
    /\ currentDate = Unset
    /\ count = 0
    /\ dates = <<>>
    /\ pc = "idle"

GetAnalyticsWindow == \E days \in ScoreWindows : getAnalytics(days)

NextScore == GetAnalyticsWindow

SpecScore == InitScore /\ [][NextScore]_vars

---------------------------------------------------------------------------
(* Claims about generateRecurringDates *)

\* C1: generateRecurringDates never returns more than 1000 dates.
C1_AtMostThousand == Len(dates) <= 1000

\* C2 as stated: with type none the result is [startDate] whatever the horizon.
C2_NoneAlwaysStart ==
    (pc = "done" /\ call.recurrence.type = "none") => dates = <<call.startDate>>

\* C2 as amended: with type none the result is [startDate] when
\* startDate <= horizonEnd, and the empty sequence when horizonEnd is earlier.
C2_NoneStartWithinHorizon ==
    (pc = "done" /\ call.recurrence.type = "none") =>
        dates = IF Le(call.startDate, call.endDate) THEN <<call.startDate>> ELSE <<>>

C2_Witness ==
    /\ pc = "done"
    /\ call.recurrence.type = "none"
    /\ call.endDate = call.startDate
    /\ dates = <<call.startDate>>

\* Whole days from a to b, rounded down: floor((b - a) / one day), for a <= b
WholeDays(a, b) == (b.day - a.day) - (IF b.ms < a.ms THEN 1 ELSE 0)

MinOf(S) == CHOOSE x \in S : \A y \in S : x <= y

\* floor((horizonEnd - startDate) / N) + 1, capped at rule.count when set and at cap
DailyCount(c, cap) ==
    MinOf({WholeDays(c.startDate, c.endDate) \div c.recurrence.interval + 1, cap}
          \cup (IF c.recurrence.count = NoCount THEN {} ELSE {c.recurrence.count}))

\* C3: for type daily, interval N >= 1 and startDate <= horizonEnd the dates are
\* N days apart from startDate on, and there are floor((horizonEnd - startDate)/N) + 1
\* of them, capped at rule.count when set and at 1000.
C3_DailySpacingAndCount ==
    (/\ pc = "done"
     /\ call.recurrence.type = "daily"
     /\ call.recurrence.interval >= 1
     /\ Le(call.startDate, call.endDate)) =>
        /\ \A i \in 1 .. Len(dates) :
              dates[i] = AddDays(call.startDate, (i - 1) * call.recurrence.interval)
        /\ Len(dates) = DailyCount(call, 1000)

---------------------------------------------------------------------------
(* Claims about the handlers *)

\* C5: every stored task generated as an instance has isRecurring = false and a
\* non-null parentTaskId, and every stored task whose recurrence.type is not none
\* has isRecurring = true and parentTaskId = null.
C5_InstanceAndParentFlags ==
    \A i \in DOMAIN tasks :
        /\ i \in generatedIds =>
              tasks[i].isRecurring = FALSE /\ tasks[i].parentTaskId # NoParent
        /\ (tasks[i].recurrence # Unset /\ tasks[i].recurrence.type # "none") =>
              tasks[i].isRecurring = TRUE /\ tasks[i].parentTaskId = NoParent

\* C6: generateRecurringInstances for a stored task with no recurrence, or with
\* recurrence.type none, answers 400 'Task is not recurring' and leaves the
\* collection as it was.
C6_NotRecurringRejected ==
    [][(/\ request'.op = "generateRecurringInstances"
        /\ request'.id \in DOMAIN tasks
        /\ (\/ tasks[request'.id].recurrence = Unset
            \/ tasks[request'.id].recurrence.type = "none"))
       => (/\ response'.status = 400
           /\ response'.error = "Task is not recurring"
           /\ tasks' = tasks)]_vars

C6_Witness ==
    /\ request.op = "generateRecurringInstances"
    /\ request.id \in DOMAIN tasks
    /\ tasks[request.id].recurrence # Unset
    /\ tasks[request.id].recurrence.type = "none"
    /\ response.status = 400
    /\ generatedIds # {}

\* C7: every instance persisted by generateRecurringInstances has a stored date d
\* with rangeStart <= d <= rangeEnd, and none falls on the parent task's own date.
C7_InstancesWithinRange ==
    (request.op = "generateRecurringInstances" /\ response.status = 200) =>
        \A k \in 1 .. Len(response.ids) :
            LET d == tasks[response.ids[k]].date
            IN  /\ Le(request.startDate, d)
                /\ Le(d, request.endDate)
                /\ d.day # tasks[request.id].date.day

---------------------------------------------------------------------------
(* Claims about getAnalytics *)

\* tasksCompleted of every day of dailyStats, oldest first
Completions == [i \in DOMAIN analyticsData.dailyStats |->
                    analyticsData.dailyStats[i].tasksCompleted]

\* The length of the run of days with completions that ends at day j of c
RunEndingAt(c, j) ==
    CHOOSE k \in 0 .. j :
        /\ \A i \in (j - k + 1) .. j : c[i] > 0
        /\ k < j => c[j - k] = 0

\* The most recent day of c with completions, 0 when there is none
LastActiveDay(c) ==
    IF \A i \in DOMAIN c : c[i] = 0 THEN 0
    ELSE CHOOSE j \in DOMAIN c : c[j] > 0 /\ \A i \in (j + 1) .. Len(c) : c[i] = 0

\* C8 as stated: currentStreak is the number of consecutive days with completions
\* counted backward from the most recent day of the window, stopping at the first
\* day with none.
C8_StreakFromNewestDay ==
    request.op = "getAnalytics" =>
        analyticsData.streakData.currentStreak = RunEndingAt(Completions, Len(Completions))

\* C8 as amended: currentStreak is the length of the most recent run of consecutive
\* days with completions: counting backward from the most recent day, the days
\* without completions that precede the first day with completions are skipped, and
\* the count stops at the first day without completions after it; for daily
\* completions [..., 3, 0, 2, 1 (newest)] it is 2.
C8_StreakOfMostRecentRun ==
    request.op = "getAnalytics" =>
        LET c == Completions
            n == Len(c)
        IN  /\ analyticsData.streakData.currentStreak = RunEndingAt(c, LastActiveDay(c))
            /\ (n >= 4 /\ <<c[n - 3], c[n - 2], c[n - 1], c[n]>> = <<3, 0, 2, 1>>) =>
                  analyticsData.streakData.currentStreak = 2

C8_Witness ==
    /\ request.op = "getAnalytics"
    /\ Completions = <<3, 0, 2, 1>>
    /\ analyticsData.streakData.currentStreak = 2

\* C9: longestStreak is the maximum length of a run of consecutive days with
\* completions anywhere in the window's daily stats.
C9_LongestStreakAnywhere ==
    request.op = "getAnalytics" =>
        LET c == Completions
        IN  /\ \A j \in DOMAIN c : RunEndingAt(c, j) <= analyticsData.streakData.longestStreak
            /\ \/ analyticsData.streakData.longestStreak = 0
               \/ \E j \in DOMAIN c :
                     RunEndingAt(c, j) = analyticsData.streakData.longestStreak

RECURSIVE SumCreated(_, _)
SumCreated(stats, i) ==
    IF i > Len(stats) THEN 0 ELSE stats[i].tasksCreated + SumCreated(stats, i + 1)

RECURSIVE SumCompleted(_, _)
SumCompleted(stats, i) ==
    IF i > Len(stats) THEN 0 ELSE stats[i].tasksCompleted + SumCompleted(stats, i + 1)

\* C10: tasksCreated summed over dailyStats equals completionStats.totalTasks, and
\* tasksCompleted summed over dailyStats equals completionStats.completedTasks.
C10_DailySumsMatchTotals ==
    request.op = "getAnalytics" =>
        /\ SumCreated(analyticsData.dailyStats, 1) = analyticsData.completionStats.totalTasks
        /\ SumCompleted(analyticsData.dailyStats, 1) =
              analyticsData.completionStats.completedTasks

C10_Witness ==
    /\ request.op = "getAnalytics"
    /\ analyticsData.dailyStats[1].tasksCompleted > 0
    /\ analyticsData.completionStats.totalTasks > analyticsData.completionStats.completedTasks
    /\ Len(tasks) > analyticsData.completionStats.totalTasks
    /\ SumCreated(analyticsData.dailyStats, 1) >= 3

---------------------------------------------------------------------------
(* Claims about the productivity score *)

\* C11: the productivityScore returned by getAnalytics is between 0 and 100
\* inclusive for every task list and every window of 1 to 365 days, and each of its
\* four weighted terms is capped: completion rate at 40, task volume at 30, current
\* streak at 20, high-priority completion rate at 10.
C11_ScoreWithinHundred ==
    (request.op = "getAnalytics" /\ request.days \in 1 .. 365) =>
        LET a     == analyticsData
            total == a.completionStats.totalTasks
            unit  == ScoreScale(total)
        IN  /\ a.productivityScore \in 0 .. 100
            /\ CompletionTerm(a.completionStats.completedTasks, total) \in 0 .. 40 * unit
            /\ VolumeTerm(a.averageTasksPerDay, total) \in 0 .. 30 * unit
            /\ StreakTerm(a.streakData.currentStreak, total) \in 0 .. 20 * unit
            /\ HighPriorityTerm(HighCompletionRate(a.priorityStats), total) \in 0 .. 10 * unit

\* Every term at its cap: all tasks completed, more than three tasks a day, a streak
\* longer than seven days
C11_Witness ==
    /\ request.op = "getAnalytics"
    /\ analyticsData.productivityScore = 100
    /\ analyticsData.streakData.currentStreak > 7
    /\ analyticsData.averageTasksPerDay > 3 * 100
    /\ analyticsData.completionStats.totalTasks > 0

---------------------------------------------------------------------------
(* Claims about interleaved creations *)

\* The writes that have been saved, as <<handler, write>> pairs
SavedWrites ==
    {w \in UNION {{<<p, k>> : k \in DOMAIN inflight[p].writes} : p \in DOMAIN inflight} :
        inflight[w[1]].writes[w[2]].pc = "done"}

WriteOf(w) == inflight[w[1]].writes[w[2]]

\* C12: the order assignment is a non-atomic read-then-write: a creation stores the
\* maximum order it read plus one, whatever was saved since it read; so when two
\* creations for the same date (createTask calls or instance writes of
\* generateRecurringInstances) both read the same maximum before either saves,
\* their two tasks are stored on that date with the same order.
C12_ReadThenWrite ==
    \A a \in SavedWrites :
        /\ WriteOf(a).highestOrder = {tasks[WriteOf(a).stored].order - 1}
        /\ \A b \in SavedWrites \ {a} :
              (/\ WriteOf(a).date.day = WriteOf(b).date.day
               /\ WriteOf(a).highestOrder = WriteOf(b).highestOrder) =>
                  /\ tasks[WriteOf(a).stored].date.day = tasks[WriteOf(b).stored].date.day
                  /\ tasks[WriteOf(a).stored].order = tasks[WriteOf(b).stored].order

\* Two createTask calls for the same morning have stored the same order, and after
\* them an instance write has stored the order of a createTask of its day
C12_Witness ==
    \E a, b, c, d \in SavedWrites :
        /\ a[1] # b[1]
        /\ inflight[a[1]].op = "createTask" /\ inflight[b[1]].op = "createTask"
        /\ WriteOf(a).date = WriteOf(b).date
        /\ WriteOf(a).date.ms = NineAM
        /\ tasks[WriteOf(a).stored].order = tasks[WriteOf(b).stored].order
        /\ inflight[c[1]].op = "createTask"
        /\ inflight[d[1]].op = "generateRecurringInstances"
        /\ WriteOf(c).stored < WriteOf(d).stored
        /\ tasks[WriteOf(c).stored].date.day = tasks[WriteOf(d).stored].date.day
        /\ tasks[WriteOf(c).stored].order = tasks[WriteOf(d).stored].order

---------------------------------------------------------------------------
(* Claims about orders when the creating handlers run one at a time *)

\* C13: when createTask and generateRecurringInstances run one at a time and no
\* reorder or update changes an order, each newly stored task receives an order
\* strictly greater than the order of every task already stored on the same
\* calendar day, whatever that task's time of day (00:00:00.000 through
\* 23:59:59.999) and including instances stored by earlier calls; so no two tasks
\* of one day share an order.
C13_NewOrderAboveDay ==
    [][(/\ request'.op \in {"createTask", "generateRecurringInstances"}
        /\ Len(tasks') > Len(tasks))
       => (/\ \A j \in (Len(tasks) + 1) .. Len(tasks') : \A i \in DOMAIN tasks :
                 tasks[i].date.day = tasks'[j].date.day => tasks'[j].order > tasks[i].order
           /\ \A i, j \in DOMAIN tasks' :
                 (i # j /\ tasks'[i].date.day = tasks'[j].date.day) =>
                     tasks'[i].order # tasks'[j].order)]_vars

---------------------------------------------------------------------------
(* Claims about the end date of a rule *)

\* C14: when a rule has endDate set, generateRecurringDates returns no date later
\* than rule.endDate, and generateRecurringInstances persists no instance later than
\* rule.endDate, even when the requested horizon end is later than rule.endDate.
C14_NothingAfterRuleEnd ==
    (/\ request.op = "generateRecurringInstances"
     /\ response.status = 200
     /\ tasks[request.id].recurrence.endDate # Unset) =>
        LET parentTask     == tasks[request.id]
            rule           == parentTask.recurrence
            recurringDates == generateRecurringDates(parentTask.date, rule, request.endDate)
        IN  /\ \A k \in DOMAIN recurringDates : Le(recurringDates[k], rule.endDate)
            /\ \A k \in DOMAIN response.ids : Le(tasks[response.ids[k]].date, rule.endDate)

=============================================================================
